---- MODULE Spec2Model ----
(***************************************************************************)
(* Model of emailsender.py: the EmailSender session (create_message,       *)
(* attach, sendmail, finish) on top of an smtplib.SMTP transport.          *)
(*                                                                         *)
(* Strings that the code iterates or joins (addresses, header values) are  *)
(* sequences of one-character strings, so that ", ".join(...) is computed  *)
(* as Python computes it.  An optional value (None or x) is the empty      *)
(* sequence or the one-element sequence <<x>>.                             *)
(***************************************************************************)
EXTENDS Integers, Sequences, FiniteSets, TLC

\* ---------------------------------------------------------------- bounds
MaxSends == 3      \* server.sendmail calls in one session
MaxParts == 2      \* parts attached to one message

\* ---------------------------------------------------------------- inputs
None == << >>

AddrA == <<"a", "@">>      \* the session's sender
AddrB == <<"b", "@">>
AddrC == <<"c", "@">>
AddrD == <<"d", "@">>
AddrE == <<"e", "@">>

Sender == AddrA
Receivers == {AddrB, AddrD}
Subjects == {<<"H", "i">>}
Parts == {"text", "file"}

\* The arguments of EmailSender(sender, password, smtp_server, smtp_port,
\* use_tls, debug).
DefaultPort == 587
Passwords == {"pw1", "pw2"}
Hosts == {"smtp.x", "smtp.y"}
Ports == {DefaultPort, 465, 25}
CtorArgs ==
    [sender : {Sender}, password : Passwords, smtp_server : Hosts,
     smtp_port : Ports, use_tls : BOOLEAN, debug : BOOLEAN]

\* The arguments of email_file(path, attachment_file_name) and what a path
\* can be in the filesystem: a readable file, missing, unreadable, a directory.
Paths == {"/a.pdf", "/b.png", "/c"}
FileNames == {"a.pdf", "resume.pdf"}
Statuses == {"file", "missing", "denied", "dir"}

\* The cc argument of create_message: None, a list of addresses, or (the
\* case sendmail's isinstance test provides for) one address as a str.
CcNone == [kind |-> "none", v |-> << >>]
CcList(l) == [kind |-> "list", v |-> l]
CcStr(s) == [kind |-> "str", v |-> s]
CcArgs == {CcNone, CcList(<< >>), CcList(<<AddrC, AddrE>>), CcStr(AddrC)}

\* ------------------------------------------------------- pure operations
\* Python truthiness of a cc value (None, [] and "" are falsy).
Truthy(c) == c.kind # "none" /\ Len(c.v) > 0

\* What iterating a cc value yields: the elements of a list, the
\* characters of a str.
Iterate(c) == IF c.kind = "str" THEN [i \in 1..Len(c.v) |-> <<c.v[i]>>] ELSE c.v

\* ", ".join(items)
RECURSIVE Join(_)
Join(items) ==
    IF items = << >> THEN << >>
    ELSE IF Len(items) = 1 THEN items[1]
    ELSE items[1] \o <<",", " ">> \o Join(Tail(items))

\* MIMEMultipart("mixed") with From/To/Subject and, when cc is truthy, Cc.
CcHeader(c) == IF Truthy(c) THEN << <<"Cc", Join(Iterate(c))>> >> ELSE << >>

NewMessage(rcv, subject, c) ==
    [headers |-> << <<"From", Sender>>, <<"To", rcv>>, <<"Subject", subject>> >> \o CcHeader(c),
     payload |-> << >>]

\* self.cc after create_message: assigned only when the cc argument is truthy.
CcAfterCreate(old, c) == IF Truthy(c) THEN c ELSE old

\* message.attach(part)
AttachPartFirst(m, part) == [m EXCEPT !.payload = <<part>> \o @]
AttachPart(m, part) == [m EXCEPT !.payload = Append(@, part)]

\* message.as_string(): header lines in order, then the parts in order.
AsString(m) == m.headers \o [i \in 1..Len(m.payload) |-> <<"part", <<m.payload[i]>> >>]

\* The recipient list sendmail computes from self.receiver and self.cc.
Recipients(rcv, c) ==
    <<rcv>> \o (IF Truthy(c) THEN (IF c.kind = "list" THEN c.v ELSE <<c.v>>) ELSE << >>)

\* ------------------------------------------------------------------ state
VARIABLES
    debug,        \* self.debug
    message,      \* self.message: None or <<MIMEMultipart>>
    receiver,     \* self.receiver: None or an address
    cc,           \* self.cc
    errors,       \* self.errors, the failure list
    server,       \* self.server, the SMTP connection: "none", "open" or "closed"
    lastOp,       \* the last method called
    lastResult,   \* how it ended: "returned" or the exception raised
    sent,         \* the server.sendmail calls the last method call made
    printed,      \* what the last method call printed (debug rendering)
    report,       \* what the last method call logged as end-of-session report
    quits,        \* the server.quit calls the last method call made, with their outcome
    lastCreate,   \* the arguments of the last create_message(): None or <<args>>
    outcomes,     \* every server.sendmail call so far: primary recipient, outcome
    finished,     \* whether finish() has been called
    ctor,         \* the constructor call: its arguments and the transport calls
                  \* it made (None once a method has been called after it)
    fsys,         \* the filesystem: what each path is
    built,        \* the last email_file() call: arguments, what open() raised, result
    attachArg,    \* the part the last method call was given, when it was attach()
    replaced      \* the parts of the message the last method call overwrote,
                  \* when it was create_message() on a session with a message

vars == <<debug, message, receiver, cc, errors, server, lastOp, lastResult,
          sent, printed, report, quits, lastCreate, outcomes, finished, ctor,
          fsys, built, attachArg, replaced>>

\* One transport call of __init__ and whether it raised.
CtorCall(op, a, raised) ==
    [op |-> op,
     host |-> IF op = "connect" THEN a.smtp_server ELSE "",
     port |-> IF op = "connect" THEN a.smtp_port ELSE 0,
     user |-> IF op = "login" THEN a.sender ELSE << >>,
     password |-> IF op = "login" THEN a.password ELSE "",
     raised |-> raised]

\* The steps at which __init__ can fail; "none" when every call succeeds.
CtorFailures(a) == {"none", "connect", "login"} \cup (IF a.use_tls THEN {"starttls"} ELSE {})

\* The transport calls the try block of __init__ makes when the call named
\* fail raises: smtplib.SMTP(host, port), starttls() when use_tls, login().
CtorCallsLoginFirst(a, fail) ==
    LET connect == <<CtorCall("connect", a, fail = "connect")>>
        login == <<CtorCall("login", a, fail = "login")>>
        tls == IF a.use_tls THEN <<CtorCall("starttls", a, fail = "starttls")>> ELSE << >>
    IN  IF fail = "connect" THEN connect
        ELSE IF fail = "login" THEN connect \o login
        ELSE connect \o login \o tls
CtorCalls(a, fail) ==
    LET connect == <<CtorCall("connect", a, fail = "connect")>>
        tls == IF a.use_tls THEN <<CtorCall("starttls", a, fail = "starttls")>> ELSE << >>
        login == <<CtorCall("login", a, fail = "login")>>
    IN  IF fail = "connect" THEN connect
        ELSE IF fail = "starttls" THEN connect \o tls
        ELSE connect \o tls \o login

\* How __init__ ends: the except clause logs and re-raises.
CtorOutcomeSwallow(fail) == "returned"
CtorOutcome(fail) == IF fail = "none" THEN "returned" ELSE "raised"

\* self.server after __init__: never assigned when smtplib.SMTP() raised;
\* otherwise the connection smtplib.SMTP() opened, which the except clause
\* does not close.
ServerAfterCtor(fail) == IF fail = "connect" THEN "none" ELSE "open"

\* Before the constructor call: no session object yet.
InitCtor ==
    /\ \E a \in CtorArgs : ctor = <<[args |-> a, calls |-> << >>]>>
    /\ debug = FALSE
    /\ message = None
    /\ receiver = None
    /\ cc = CcNone
    /\ errors = << >>
    /\ server = "none"
    /\ lastOp = "new"
    /\ lastResult = "returned"
    /\ sent = << >>
    /\ printed = << >>
    /\ report = << >>
    /\ quits = << >>
    /\ lastCreate = None
    /\ outcomes = << >>
    /\ finished = FALSE
    /\ fsys = [p \in Paths |-> "missing"]
    /\ built = None
    /\ attachArg = None
    /\ replaced = None

\* EmailSender(...), the whole of __init__
Construct ==
    /\ lastOp = "new"
    /\ \E fail \in CtorFailures(ctor[1].args) :
           /\ ctor' = <<[args |-> ctor[1].args, calls |-> CtorCalls(ctor[1].args, fail)]>>
           /\ server' = ServerAfterCtor(fail)
           /\ lastResult' = CtorOutcome(fail)
    /\ debug' = ctor[1].args.debug
    /\ message' = None
    /\ receiver' = None
    /\ cc' = CcNone
    /\ errors' = << >>
    /\ lastOp' = "init"
    /\ UNCHANGED <<sent, printed, report, quits, lastCreate, outcomes, finished, fsys, built,
                   attachArg, replaced>>

NextCtor == Construct

SpecCtor == InitCtor /\ [][NextCtor]_vars

\* The session as __init__ leaves it when connect, starttls and login succeed.
SessionInit ==
    /\ debug \in BOOLEAN
    /\ \E a \in CtorArgs :
           /\ a.debug = debug
           /\ ctor = <<[args |-> a, calls |-> CtorCalls(a, "none")]>>
    /\ message = None
    /\ receiver = None
    /\ cc = CcNone
    /\ errors = << >>
    /\ server = "open"
    /\ lastOp = "init"
    /\ lastResult = "returned"
    /\ sent = << >>
    /\ printed = << >>
    /\ report = << >>
    /\ quits = << >>
    /\ lastCreate = None
    /\ outcomes = << >>
    /\ finished = FALSE
    /\ attachArg = None
    /\ replaced = None

Init ==
    /\ SessionInit
    /\ fsys = [p \in Paths |-> "missing"]
    /\ built = None

\* ------------------------------------------------------------- operations
\* create_message(receiver, subject, cc)
CreateMessageKeepsParts ==
    \E rcv \in Receivers, subject \in Subjects, c \in CcArgs :
        /\ message' = <<[NewMessage(rcv, subject, c) EXCEPT
                            !.payload = IF message = None THEN << >> ELSE message[1].payload]>>
        /\ cc' = CcAfterCreate(cc, c)
        /\ receiver' = rcv
        /\ lastCreate' = <<[receiver |-> rcv, subject |-> subject, cc |-> c]>>
        /\ lastOp' = "create_message"
        /\ lastResult' = "returned"
        /\ sent' = << >> /\ printed' = << >> /\ report' = << >> /\ quits' = << >>
        /\ replaced' = (IF message = None THEN None ELSE <<message[1].payload>>)
        /\ attachArg' = None
        /\ ctor' = None
        /\ UNCHANGED <<debug, errors, server, outcomes, finished, fsys, built>>
CreateMessage ==
    \E rcv \in Receivers, subject \in Subjects, c \in CcArgs :
        /\ message' = <<NewMessage(rcv, subject, c)>>
        /\ cc' = CcAfterCreate(cc, c)
        /\ receiver' = rcv
        /\ lastCreate' = <<[receiver |-> rcv, subject |-> subject, cc |-> c]>>
        /\ lastOp' = "create_message"
        /\ lastResult' = "returned"
        /\ sent' = << >> /\ printed' = << >> /\ report' = << >> /\ quits' = << >>
        /\ replaced' = (IF message = None THEN None ELSE <<message[1].payload>>)
        /\ attachArg' = None
        /\ ctor' = None
        /\ UNCHANGED <<debug, errors, server, outcomes, finished, fsys, built>>

\* The precondition attach() and sendmail() test first.
NoMessage(m) == m = None

\* attach(attachment)
Attach ==
    \E part \in Parts :
        /\ lastOp' = "attach"
        /\ IF NoMessage(message)
           THEN /\ lastResult' = "ValueError"
                /\ UNCHANGED message
           ELSE /\ Len(message[1].payload) < MaxParts
                /\ message' = <<AttachPart(message[1], part)>>
                /\ lastResult' = "returned"
        /\ sent' = << >> /\ printed' = << >> /\ report' = << >> /\ quits' = << >>
        /\ attachArg' = <<part>>
        /\ replaced' = None
        /\ ctor' = None
        /\ UNCHANGED <<debug, receiver, cc, errors, server, lastCreate, outcomes, finished,
                       fsys, built>>

\* sendmail() without a message: logs and raises ValueError.
RejectSendNoRaise ==
    /\ lastResult' = "returned"
    /\ errors' = Append(errors, receiver)
    /\ sent' = << >> /\ printed' = << >>
    /\ UNCHANGED <<message, outcomes>>
RejectSendRecords ==
    /\ lastResult' = "ValueError"
    /\ errors' = Append(errors, receiver)
    /\ sent' = << >> /\ printed' = << >>
    /\ UNCHANGED <<message, outcomes>>
RejectSend ==
    /\ lastResult' = "ValueError"
    /\ sent' = << >> /\ printed' = << >>
    /\ UNCHANGED <<message, errors, outcomes>>

\* Whether sendmail() hands the message to server.sendmail (live mode) or
\* prints it (debug mode).
ContactsTransportAlways(dbg) == TRUE
ContactsTransport(dbg) == ~dbg

\* The outcomes server.sendmail can have: on a connection that quit() has
\* closed it raises SMTPServerDisconnected; on an open one it returns or
\* raises (dropped connection, refused recipients, ...).
SendRaises(srv) == IF srv = "closed" THEN {TRUE} ELSE BOOLEAN

\* The server.sendmail calls one sendmail() makes for a message: one, with
\* no retry when it raises.
TransportCallsRetry(call) == IF call.raised THEN <<call, call>> ELSE <<call>>
TransportCalls(call) == <<call>>

\* self.message after the try block of sendmail(): cleared on the normal
\* path only, the except clause leaves it.
MessageAfterSend(m, raised) == IF raised THEN m ELSE None

\* self.errors after the try block of sendmail().
ErrorsAfterSendAllRecipients(errs, rcv, c, raised) ==
    IF raised THEN errs \o Recipients(rcv, c) ELSE errs
ErrorsAfterSendPrepend(errs, rcv, c, raised) == IF raised THEN <<rcv>> \o errs ELSE errs
ErrorsAfterSendTwice(errs, rcv, c, raised) == IF raised THEN errs \o <<rcv, rcv>> ELSE errs
ErrorsAfterSendAlways(errs, rcv, c, raised) == Append(errs, rcv)
ErrorsAfterSend(errs, rcv, c, raised) == IF raised THEN Append(errs, rcv) ELSE errs

\* sendmail()
SendMail ==
    /\ lastOp' = "sendmail"
    /\ report' = << >> /\ quits' = << >>
    /\ IF NoMessage(message)
       THEN RejectSend
       ELSE LET recipients == Recipients(receiver, cc) IN
            /\ lastResult' = "returned"
            /\ IF ContactsTransport(debug)
               THEN \E raised \in SendRaises(server) :
                        /\ Len(outcomes) < MaxSends
                        /\ sent' = TransportCalls([from |-> Sender, to |-> recipients,
                                      msg |-> AsString(message[1]), raised |-> raised])
                        /\ outcomes' = Append(outcomes, [primary |-> recipients[1], raised |-> raised])
                        /\ message' = MessageAfterSend(message, raised)
                        /\ errors' = ErrorsAfterSend(errors, receiver, cc, raised)
                        /\ printed' = << >>
               ELSE /\ printed' = <<[to |-> Join(recipients), msg |-> AsString(message[1])]>>
                    /\ message' = MessageAfterSend(message, FALSE)
                    /\ errors' = ErrorsAfterSend(errors, receiver, cc, FALSE)
                    /\ sent' = << >>
                    /\ UNCHANGED outcomes
    /\ attachArg' = None /\ replaced' = None
    /\ ctor' = None
    /\ UNCHANGED <<debug, receiver, cc, server, lastCreate, finished, fsys, built>>

\* What finish() logs before closing.
FinishReportAlwaysOk(errs) == [ok |-> TRUE, failed |-> << >>]
FinishReport(errs) ==
    IF errs = << >> THEN [ok |-> TRUE, failed |-> << >>] ELSE [ok |-> FALSE, failed |-> errs]

\* The outcomes server.quit can have, and the connection it leaves.
QuitRaises(srv) == IF srv = "closed" THEN {TRUE} ELSE BOOLEAN
ServerAfterQuit(raised) == IF raised THEN {"open", "closed"} ELSE {"closed"}

\* How finish() ends: the except clause swallows a failing quit().
FinishOutcomeReraise(quitRaised) == IF quitRaised THEN "raised" ELSE "returned"
FinishOutcome(quitRaised) == "returned"

\* finish()
Finish ==
    /\ report' = <<FinishReport(errors)>>
    /\ \E raised \in QuitRaises(server) :
           /\ quits' = <<[raised |-> raised]>>
           /\ server' \in ServerAfterQuit(raised)
           /\ lastResult' = FinishOutcome(raised)
    /\ lastOp' = "finish"
    /\ finished' = TRUE
    /\ sent' = << >> /\ printed' = << >>
    /\ attachArg' = None /\ replaced' = None
    /\ ctor' = None
    /\ UNCHANGED <<debug, message, receiver, cc, errors, lastCreate, outcomes, fsys, built>>

\* What open(path, "rb") raises ("" when it opens the file).
OpenError(status) ==
    CASE status = "missing" -> "FileNotFoundError"
      [] status = "denied" -> "PermissionError"
      [] status = "dir" -> "IsADirectoryError"
      [] OTHER -> ""

\* The MIMEBase part email_file builds: octet-stream, the file's bytes in
\* base64, Content-Disposition with the RFC 2231 encoded name.
FilePart(path, name) ==
    [ctype |-> "application/octet-stream",
     payload |-> <<"base64", path>>,
     disposition |-> <<"attachment; filename*=", "utf-8''", name>>]

\* email_file(path, name): the part, or the exception it raises and the
\* exception that one is chained from.
EmailFileResultWrapAll(opened, path, name) ==
    IF opened = "" THEN [raised |-> "", cause |-> "", part |-> <<FilePart(path, name)>>]
    ELSE [raised |-> "ValueError", cause |-> opened, part |-> << >>]
EmailFileResult(opened, path, name) ==
    IF opened = "" THEN [raised |-> "", cause |-> "", part |-> <<FilePart(path, name)>>]
    ELSE IF opened = "FileNotFoundError"
         THEN [raised |-> "ValueError", cause |-> "FileNotFoundError", part |-> << >>]
    ELSE [raised |-> opened, cause |-> "", part |-> << >>]

\* email_file(path, attachment_file_name)
EmailFile ==
    \E path \in Paths, name \in FileNames :
        LET opened == OpenError(fsys[path])
            result == EmailFileResult(opened, path, name)
        IN  /\ built' = <<[path |-> path, name |-> name, opened |-> opened, result |-> result]>>
            /\ lastOp' = "email_file"
            /\ lastResult' = IF result.raised = "" THEN "returned" ELSE result.raised
            /\ ctor' = None
            /\ UNCHANGED <<debug, message, receiver, cc, errors, server, sent, printed,
                           report, quits, lastCreate, outcomes, finished, fsys,
                           attachArg, replaced>>

InitFile ==
    /\ SessionInit
    /\ fsys \in [Paths -> Statuses]
    /\ built = None

NextFile == EmailFile

SpecFile == InitFile /\ [][NextFile]_vars

Next == CreateMessage \/ Attach \/ SendMail \/ Finish

Spec == Init /\ [][Next]_vars

\* ----------------------------------------------------------------- claims
\* The recipient list the arguments of a create_message() call stand for:
\* the receiver, then the cc entries (one address counts as one entry).
ExpectedRecipients(args) ==
    <<args.receiver>> \o (IF args.cc.kind = "list" THEN args.cc.v
                          ELSE IF args.cc.kind = "str" THEN <<args.cc.v>>
                          ELSE << >>)

\* The primary recipients of the server.sendmail calls that raised, in order.
RECURSIVE FailedPrimaries(_)
FailedPrimaries(log) ==
    IF log = << >> THEN << >>
    ELSE (IF log[1].raised THEN <<log[1].primary>> ELSE << >>) \o FailedPrimaries(Tail(log))

IsPrefix(s, t) == Len(s) <= Len(t) /\ SubSeq(t, 1, Len(s)) = s

\* C1: every sendmail() call that finds a message (it returns normally,
\* whether the send succeeded, was a debug rendering, or raised) leaves no
\* message; and a sendmail() directly after such a call fails with
\* ValueError and makes no server.sendmail call.
C1_ClearedAfterSend ==
    [][ /\ (lastOp' = "sendmail" /\ lastResult' = "returned") => message' = None
        /\ (lastOp = "sendmail" /\ lastResult = "returned" /\ lastOp' = "sendmail")
               => (lastResult' = "ValueError" /\ sent' = << >>) ]_vars

\* C2: the recipients every sendmail() hands to server.sendmail, or renders
\* in debug mode, are the receiver followed by the cc entries of the most
\* recent create_message() call, and nothing else.
C2_RecipientsOfLastCreate ==
    /\ \A i \in 1..Len(sent) : sent[i].to = ExpectedRecipients(lastCreate[1])
    /\ \A i \in 1..Len(printed) : printed[i].to = Join(ExpectedRecipients(lastCreate[1]))

\* C3: attach() or sendmail() on a session without a message fails with
\* ValueError, appends no part, calls no server.sendmail and prints nothing.
C3_NoMessageRejected ==
    [][ (message = None /\ lastOp' \in {"attach", "sendmail"})
            => /\ lastResult' = "ValueError"
               /\ message' = None
               /\ sent' = << >>
               /\ printed' = << >> ]_vars

C3_Witness ==
    /\ lastOp \in {"attach", "sendmail"}
    /\ lastResult = "ValueError"
    /\ lastCreate = None

\* C4: a sendmail() whose server.sendmail call raised returns normally and
\* appends exactly the primary recipient of the message to the failure
\* list, no cc address.
C4_FailureRecordsPrimaryOnce ==
    [][ (lastOp' = "sendmail" /\ Len(sent') = 1 /\ sent'[1].raised)
            => /\ lastResult' = "returned"
               /\ errors' = Append(errors, lastCreate[1].receiver) ]_vars

C4_Witness ==
    /\ lastOp = "sendmail"
    /\ Len(sent) = 1 /\ sent[1].raised
    /\ sent[1].to = <<AddrB, AddrC, AddrE>>
    /\ errors = <<AddrB>>

\* C5: once finish() has been called, no operation installs or changes an
\* in-progress message, calls server.sendmail, or changes the failure list.
C5_FinishTerminal ==
    [][ finished => /\ (message' # None => message' = message)
                    /\ sent' = << >>
                    /\ errors' = errors ]_vars

\* C6: in debug mode a sendmail() with a message makes no server.sendmail
\* call, prints the serialized message, returns normally, leaves the
\* failure list unchanged and clears the message.
C6_DebugNeverSends ==
    [][ (debug /\ message # None /\ lastOp' = "sendmail")
            => /\ sent' = << >>
               /\ Len(printed') = 1 /\ printed'[1].msg = AsString(message[1])
               /\ lastResult' = "returned"
               /\ errors' = errors
               /\ message' = None ]_vars

C6_Witness ==
    /\ debug
    /\ lastOp = "sendmail"
    /\ Len(printed) = 1
    /\ Len(printed[1].msg) = 6
    /\ message = None

\* C7: every finish() call makes exactly one server.quit call and returns
\* normally, also when that call raised.
C7_FinishClosesOnceNeverRaises ==
    lastOp = "finish" => (Len(quits) = 1 /\ lastResult = "returned")

C7_Witness ==
    /\ lastOp = "finish"
    /\ quits = <<[raised |-> TRUE]>>
    /\ lastResult = "returned"

\* C8: finish() reports success exactly when the failure list is empty, and
\* otherwise reports the primary recipients of the failed sends, in the
\* order the failures occurred.
C8_FinishReportsFailures ==
    lastOp = "finish"
        => /\ Len(report) = 1
           /\ report[1].ok <=> errors = << >>
           /\ report[1].ok <=> FailedPrimaries(outcomes) = << >>
           /\ ~report[1].ok => report[1].failed = FailedPrimaries(outcomes)

C8_Witness ==
    /\ lastOp = "finish"
    /\ report = <<[ok |-> FALSE, failed |-> <<AddrD, AddrB>>]>>
    /\ Len(outcomes) = 3

\* C9: after a sendmail() whose send raised, create_message() is accepted,
\* a sendmail() with a message still calls server.sendmail with that
\* message, a send that succeeds clears the message and leaves the failure
\* list as it was, and a session whose first send failed and whose second
\* succeeded has exactly the first primary recipient in its failure list.
C9_FailureDoesNotAbort ==
    [][ /\ (Len(sent) = 1 /\ sent[1].raised /\ lastOp' = "create_message")
               => (lastResult' = "returned" /\ Len(message') = 1 /\ message'[1].payload = << >>)
        /\ (errors # << >> /\ message # None /\ lastOp' = "sendmail")
               => /\ Len(sent') = 1
                  /\ sent'[1].msg = AsString(message[1])
                  /\ ~sent'[1].raised => (message' = None /\ errors' = errors)
        /\ (Len(outcomes') = 2 /\ outcomes'[1].raised /\ ~outcomes'[2].raised)
               => errors' = <<outcomes'[1].primary>> ]_vars

C9_Witness ==
    /\ lastOp = "sendmail"
    /\ outcomes = <<[primary |-> AddrB, raised |-> TRUE], [primary |-> AddrD, raised |-> FALSE]>>
    /\ Len(sent) = 1 /\ Len(sent[1].msg) = 4
    /\ sent[1].to = <<AddrD>>
    /\ errors = <<AddrB>>
    /\ message = None

\* C10: across every operation the failure list before is a prefix of the
\* failure list after.
C10_FailureListOnlyGrows ==
    [][ IsPrefix(errors, errors') ]_vars

C10_Witness ==
    /\ errors = <<AddrB, AddrD>>
    /\ lastOp = "finish"

\* The transport steps construction is to make for its arguments, in order.
ExpectedCtorOps(a) ==
    <<"connect">> \o (IF a.use_tls THEN <<"starttls">> ELSE << >>) \o <<"login">>

\* C11: the constructor calls connect, then starttls exactly when use_tls is
\* set, then login, each with the constructor's arguments; the first call
\* that raises is the last call made, and the constructor raises exactly
\* when a call raised, so it returns only after all of them succeeded.
C11_ConstructionOrder ==
    lastOp = "init"
        => LET a == ctor[1].args
               calls == ctor[1].calls
               ops == [i \in 1..Len(calls) |-> calls[i].op]
           IN  /\ Len(calls) >= 1
               /\ IsPrefix(ops, ExpectedCtorOps(a))
               /\ \A i \in 1..(Len(calls) - 1) : ~calls[i].raised
               /\ (lastResult = "raised") <=> calls[Len(calls)].raised
               /\ (lastResult = "returned")
                      <=> (ops = ExpectedCtorOps(a) /\ ~calls[Len(calls)].raised)
               /\ \A i \in 1..Len(calls) :
                      /\ calls[i].op = "connect"
                             => (calls[i].host = a.smtp_server /\ calls[i].port = a.smtp_port)
                      /\ calls[i].op = "login"
                             => (calls[i].user = a.sender /\ calls[i].password = a.password)

C11_Witness ==
    /\ lastOp = "init"
    /\ lastResult = "raised"
    /\ Len(ctor[1].calls) = 2
    /\ ctor[1].calls[2].op = "starttls"
    /\ ctor[1].calls[2].raised

\* C16: a constructor call that raised leaves no open connection behind.
C16_FailedConstructionClosesConnection ==
    (lastOp = "init" /\ lastResult = "raised") => server # "open"

\* C12: email_file on a path that does not exist raises ValueError chained
\* from FileNotFoundError and never the FileNotFoundError itself; any other
\* error of open() is raised as it is, unchained; no part is returned then.
C12_MissingFileIsValueError ==
    lastOp = "email_file"
        => LET b == built[1] IN
           /\ fsys[b.path] = "missing"
                  => /\ b.opened = "FileNotFoundError"
                     /\ b.result.raised = "ValueError"
                     /\ b.result.cause = "FileNotFoundError"
                     /\ lastResult = "ValueError"
           /\ (b.opened # "" /\ b.opened # "FileNotFoundError")
                  => /\ b.result.raised = b.opened
                     /\ b.result.cause = ""
                     /\ lastResult = b.opened
           /\ b.opened # "" => b.result.part = << >>
           /\ b.result.raised # "FileNotFoundError"

C12_Witness ==
    /\ lastOp = "email_file"
    /\ fsys[built[1].path] = "missing"
    /\ built[1].result.raised = "ValueError"
    /\ \E p \in Paths : fsys[p] = "denied"

\* The parts of a serialized message, in order.
PartsOf(raw) ==
    LET lines == SelectSeq(raw, LAMBDA l : l[1] = "part")
    IN  [i \in 1..Len(lines) |-> lines[i][2][1]]

\* The cc addresses the cc argument of create_message() stands for.
CcEntries(c) == IF c.kind = "list" THEN c.v ELSE IF c.kind = "str" THEN <<c.v>> ELSE << >>

\* C13: create_message() starts with no parts, each successful attach()
\* appends the part it was given at the end and leaves a message in place,
\* no other call changes the parts, and the message sendmail() hands to
\* server.sendmail (or prints) holds exactly the parts of the message, in
\* attach order.
C13_PartsInAttachOrder ==
    [][ /\ (lastOp' = "attach" /\ lastResult' = "returned")
               => /\ message # None /\ Len(message') = 1
                  /\ message'[1].payload = Append(message[1].payload, attachArg'[1])
                  /\ message'[1].headers = message[1].headers
        /\ lastOp' = "create_message" => message'[1].payload = << >>
        /\ lastOp' = "sendmail"
               => /\ \A i \in 1..Len(sent') : PartsOf(sent'[i].msg) = message[1].payload
                  /\ \A i \in 1..Len(printed') : PartsOf(printed'[i].msg) = message[1].payload
        /\ lastOp' \notin {"attach", "create_message"}
               => (message' = message \/ message' = None) ]_vars

C13_Witness ==
    /\ lastOp = "sendmail"
    /\ Len(sent) = 1
    /\ PartsOf(sent[1].msg) = <<"text", "file">>

\* C14: create_message() returns normally whether or not a message is being
\* composed and leaves exactly one message, with no parts; the parts of a
\* message it replaced are not in what a sendmail() right after it hands to
\* server.sendmail or prints.
C14_CreateDiscardsPrevious ==
    [][ /\ lastOp' = "create_message"
               => /\ lastResult' = "returned"
                  /\ Len(message') = 1
                  /\ message'[1].payload = << >>
                  /\ sent' = << >>
        /\ (lastOp = "create_message" /\ lastOp' = "sendmail")
               => /\ \A i \in 1..Len(sent') : PartsOf(sent'[i].msg) = << >>
                  /\ \A i \in 1..Len(printed') : PartsOf(printed'[i].msg) = << >> ]_vars

C14_Witness ==
    /\ lastOp = "create_message"
    /\ replaced = << <<"text", "file">> >>
    /\ message[1].payload = << >>

\* C15: after create_message(receiver, subject, cc) the message has the
\* headers From = sender, To = receiver, Subject = subject, and a Cc header
\* exactly when cc has addresses, listing them joined by ", " in order.
C15_HeadersOfCreate ==
    lastOp = "create_message"
        => LET a == lastCreate[1] IN
           message[1].headers =
               << <<"From", Sender>>, <<"To", a.receiver>>, <<"Subject", a.subject>> >>
               \o (IF CcEntries(a.cc) # << >>
                   THEN << <<"Cc", Join(CcEntries(a.cc))>> >> ELSE << >>)

\* C17: a sendmail() makes at most one server.sendmail call, and no other
\* method makes any.
C17_AtMostOneSendPerCall ==
    [][ /\ Len(sent') <= 1
        /\ Len(outcomes') <= Len(outcomes) + 1
        /\ lastOp' # "sendmail" => (sent' = << >> /\ outcomes' = outcomes) ]_vars

C17_Witness ==
    /\ lastOp = "sendmail"
    /\ Len(sent) = 1 /\ sent[1].raised
    /\ Len(outcomes) = 1
    /\ message # None

\* C18: an attach() or sendmail() on a session without a message raises
\* ValueError and changes nothing: no message, the same receiver, cc and
\* failure list, the same connection, and no server.sendmail call.
C18_RejectedCallChangesNothing ==
    [][ (message = None /\ lastOp' \in {"attach", "sendmail"})
            => /\ lastResult' = "ValueError"
               /\ message' = None
               /\ receiver' = receiver
               /\ cc' = cc
               /\ errors' = errors
               /\ debug' = debug /\ server' = server
               /\ sent' = << >> /\ outcomes' = outcomes ]_vars

C18_Witness ==
    /\ lastOp = "sendmail"
    /\ lastResult = "ValueError"
    /\ errors # << >>
    /\ Truthy(cc)
    /\ receiver # None

\* C19: the failure list changes only in a sendmail() whose server.sendmail
\* call raised, and always has as many entries as there were calls that
\* raised.
C19_OnlyFailedSendsRecorded ==
    [][ /\ errors' # errors => (lastOp' = "sendmail" /\ Len(sent') = 1 /\ sent'[1].raised)
        /\ Len(errors') = Len(FailedPrimaries(outcomes')) ]_vars

C19_Witness ==
    /\ lastOp = "finish"
    /\ Len(errors) = 1
    /\ Len(outcomes) = 3
    /\ ~outcomes[3].raised

====
